---- MODULE Spec2Model ----
(***************************************************************************)
(* The PDF extraction service of app.py: one Flask endpoint, POST          *)
(* /summary, whose handler validates the upload, reads the ontology and    *)
(* the prompt template from disk, extracts the PDF's text, calls Gemini    *)
(* once, parses the answer as JSON, saves it under OUTPUT_DIR and returns  *)
(* it.  Strings whose characters the code inspects (file names, paths) are *)
(* sequences of one-character strings; the texts the provider returns and  *)
(* the files save_output writes are sequences of JSON tokens.              *)
(***************************************************************************)
EXTENDS Integers, Sequences, FiniteSets, TLC

VARIABLES
    pool,       \* the server threads that serve requests (app.run, line 209)
    disk,       \* the two configuration files, as they are on disk now
    files,      \* the files save_output has created: path -> tokens
    req,        \* per thread: the request it serves or served last
    lastClose,  \* path -> the thread whose save_output finished last on it
    served      \* the number of requests received so far

vars == <<pool, disk, files, req, lastClose, served>>

(***************************************************************************)
(* Bounds of the model.                                                    *)
(***************************************************************************)
MaxRequests == 2

Threads == {"t1", "t2"}

(***************************************************************************)
(* Python values.                                                          *)
(***************************************************************************)
\* None, where a text is expected (read_file, extract_text_from_pdf).  Texts
\* are sequences of fragments, so that concatenation is \o.
NoneText == <<"<None>">>

\* JSON values as json.loads builds them; Python's None is JSON's null.
JNull == [t |-> "null"]
JBool(b) == [t |-> "bool", b |-> b]
JNum(n) == [t |-> "num", n |-> n]
JStr(s) == [t |-> "str", s |-> s]
JArr(a) == [t |-> "arr", a |-> a]
JObj(o) == [t |-> "obj", o |-> o]

PyNone == JNull

(***************************************************************************)
(* str.lower, str.endswith, os.path.splitext, os.path.join.                *)
(***************************************************************************)
LowerChar(c) ==
    CASE c = "P" -> "p"
      [] c = "D" -> "d"
      [] c = "F" -> "f"
      [] c = "A" -> "a"
      [] c = "T" -> "t"
      [] c = "X" -> "x"
      [] OTHER -> c

lower(s) == [i \in 1..Len(s) |-> LowerChar(s[i])]

endswith(s, suffix) ==
    /\ Len(s) >= Len(suffix)
    /\ SubSeq(s, Len(s) - Len(suffix) + 1, Len(s)) = suffix

DotPdf == <<".", "p", "d", "f">>

\* str.rfind as a 1-based index, 0 when the character does not occur.
rfind(s, c) ==
    LET I == {i \in 1..Len(s) : s[i] = c}
    IN  IF I = {} THEN 0 ELSE CHOOSE i \in I : \A j \in I : j <= i

\* genericpath._splitext: the extension starts at the last dot of the last
\* path component, unless only dots precede it in that component.
splitext(p) ==
    LET sepIndex == rfind(p, "/")
        dotIndex == rfind(p, ".")
    IN  IF /\ dotIndex > sepIndex
           /\ \E i \in (sepIndex + 1)..(dotIndex - 1) : p[i] # "."
        THEN <<SubSeq(p, 1, dotIndex - 1), SubSeq(p, dotIndex, Len(p))>>
        ELSE <<p, <<>>>>

\* posixpath.join of two components: an absolute second component wins.
path_join(a, b) ==
    IF b # <<>> /\ b[1] = "/" THEN b
    ELSE IF a = <<>> \/ a[Len(a)] = "/" THEN a \o b
    ELSE a \o <<"/">> \o b

OUTPUT_DIR == <<"output">>

ExtractionSuffix == <<"_extraction.json">>

\* The first argument of save_output at line 200.
OutputName(filename) == splitext(filename)[1] \o ExtractionSuffix

\* filepath at line 47.
OutputPath(filename) == path_join(OUTPUT_DIR, OutputName(filename))

(***************************************************************************)
(* json.loads on a token sequence.  The scanner knows the string and       *)
(* number literals of the bounded universe below.                          *)
(***************************************************************************)
Whitespace == {" ", "\n", "\n    ", "\n        "}

\* String literals: "<e-acute>" stands for the one non-ASCII character of the
\* universe, which a JSON text may also spell with the escape \u00e9.
StrLit ==
    [x \in {"\"k\"", "\"<e-acute>\"", "\"\\u00e9\""} |->
        IF x = "\"k\"" THEN "k" ELSE "<e-acute>"]

StrTokens == DOMAIN StrLit

StrValue(tk) == StrLit[tk]

NumLit == [x \in {"0", "1"} |-> IF x = "0" THEN 0 ELSE 1]

ParseFail == [ok |-> FALSE, v |-> JNull, nxt |-> 0]

ParseOk(v, nxt) == [ok |-> TRUE, v |-> v, nxt |-> nxt]

RECURSIVE SkipWs(_, _)
SkipWs(toks, i) ==
    IF i <= Len(toks) /\ toks[i] \in Whitespace THEN SkipWs(toks, i + 1) ELSE i

\* dict[key] = value on an insertion-ordered dict kept as a sequence of pairs.
DictSet(o, k, v) ==
    IF \E i \in 1..Len(o) : o[i][1] = k
    THEN [i \in 1..Len(o) |-> IF o[i][1] = k THEN <<k, v>> ELSE o[i]]
    ELSE Append(o, <<k, v>>)

RECURSIVE ParseValue(_, _), ParseElems(_, _, _), ParseMembers(_, _, _)
ParseValue(toks, i0) ==
    LET i == SkipWs(toks, i0)
    IN  IF i > Len(toks) THEN ParseFail
        ELSE LET tk == toks[i]
                 j == SkipWs(toks, i + 1)
             IN  CASE tk = "null" -> ParseOk(JNull, i + 1)
                   [] tk = "true" -> ParseOk(JBool(TRUE), i + 1)
                   [] tk = "false" -> ParseOk(JBool(FALSE), i + 1)
                   [] tk \in DOMAIN NumLit -> ParseOk(JNum(NumLit[tk]), i + 1)
                   [] tk \in StrTokens -> ParseOk(JStr(StrValue(tk)), i + 1)
                   [] tk = "[" ->
                        IF j <= Len(toks) /\ toks[j] = "]"
                        THEN ParseOk(JArr(<<>>), j + 1)
                        ELSE ParseElems(toks, j, <<>>)
                   [] tk = "{" ->
                        IF j <= Len(toks) /\ toks[j] = "}"
                        THEN ParseOk(JObj(<<>>), j + 1)
                        ELSE ParseMembers(toks, j, <<>>)
                   [] OTHER -> ParseFail

ParseElems(toks, i, acc) ==
    LET r == ParseValue(toks, i)
        j == SkipWs(toks, r.nxt)
    IN  IF ~r.ok \/ j > Len(toks) THEN ParseFail
        ELSE IF toks[j] = "," THEN ParseElems(toks, j + 1, Append(acc, r.v))
        ELSE IF toks[j] = "]" THEN ParseOk(JArr(Append(acc, r.v)), j + 1)
        ELSE ParseFail

ParseMembers(toks, i0, acc) ==
    LET i == SkipWs(toks, i0)
        c == SkipWs(toks, i + 1)
    IN  IF i > Len(toks) \/ c > Len(toks) THEN ParseFail
        ELSE IF toks[i] \notin StrTokens \/ toks[c] # ":" THEN ParseFail
        ELSE LET r == ParseValue(toks, c + 1)
                 j == SkipWs(toks, r.nxt)
                 o == DictSet(acc, StrValue(toks[i]), r.v)
             IN  IF ~r.ok \/ j > Len(toks) THEN ParseFail
                 ELSE IF toks[j] = "," THEN ParseMembers(toks, j + 1, o)
                 ELSE IF toks[j] = "}" THEN ParseOk(JObj(o), j + 1)
                 ELSE ParseFail

\* json.loads: [ok, v]; ok is FALSE where it raises JSONDecodeError.
json_loads(toks) ==
    LET r == ParseValue(toks, 1)
    IN  IF r.ok /\ SkipWs(toks, r.nxt) > Len(toks)
        THEN [ok |-> TRUE, v |-> r.v]
        ELSE [ok |-> FALSE, v |-> JNull]

(***************************************************************************)
(* json.dump(data, f, indent=4, ensure_ascii=False), as the tokens written.*)
(***************************************************************************)
Newline(level) ==
    CASE level = 0 -> "\n"
      [] level = 1 -> "\n    "
      [] OTHER -> "\n        "

\* A string literal with ensure_ascii=False: non-ASCII characters are kept.
StrTokenRaw(s) == IF s = "k" THEN "\"k\"" ELSE "\"<e-acute>\""

RECURSIVE Encode(_, _), EncodeElems(_, _, _), EncodeMembers(_, _, _)
Encode(v, level) ==
    CASE v.t = "null" -> <<"null">>
      [] v.t = "bool" -> IF v.b THEN <<"true">> ELSE <<"false">>
      [] v.t = "num" -> IF v.n = 0 THEN <<"0">> ELSE <<"1">>
      [] v.t = "str" -> <<StrTokenRaw(v.s)>>
      [] v.t = "arr" ->
            IF v.a = <<>> THEN <<"[", "]">>
            ELSE <<"[">> \o EncodeElems(v.a, 1, level + 1)
                         \o <<Newline(level), "]">>
      [] OTHER ->
            IF v.o = <<>> THEN <<"{", "}">>
            ELSE <<"{">> \o EncodeMembers(v.o, 1, level + 1)
                         \o <<Newline(level), "}">>

EncodeElems(a, i, level) ==
    IF i > Len(a) THEN <<>>
    ELSE (IF i > 1 THEN <<",">> ELSE <<>>)
         \o <<Newline(level)>> \o Encode(a[i], level)
         \o EncodeElems(a, i + 1, level)

EncodeMembers(o, i, level) ==
    IF i > Len(o) THEN <<>>
    ELSE (IF i > 1 THEN <<",">> ELSE <<>>)
         \o <<Newline(level), StrTokenRaw(o[i][1]), ":", " ">>
         \o Encode(o[i][2], level)
         \o EncodeMembers(o, i + 1, level)

json_dump(data) == Encode(data, 0)

(***************************************************************************)
(* The inputs: uploads, PDF documents, configuration files, provider       *)
(* responses.                                                              *)
(***************************************************************************)
FnEmpty == <<>>
FnTxt == <<"a", ".", "t", "x", "t">>
FnPdf == <<"a", ".", "p", "d", "f">>
FnPdfUpper == <<"a", ".", "P", "D", "F">>
FnDotPdf == <<".", "p", "d", "f">>
FnAbsPdf == <<"/", "a", ".", "p", "d", "f">>

Filenames == {FnEmpty, FnTxt, FnPdf, FnPdfUpper, FnDotPdf, FnAbsPdf}

\* A PDF byte stream: whether PdfReader can read it, and its pages' texts.
PdfCorrupt == [ok |-> FALSE, pages |-> <<>>]
PdfBlank == [ok |-> TRUE, pages |-> << <<>> >>]
PdfText == [ok |-> TRUE, pages |-> << <<"T">>, <<"U">> >>]

Pdfs == {PdfCorrupt, PdfBlank, PdfText}

NoUpload == [hasFile |-> FALSE, filename |-> <<>>, pdf |-> PdfCorrupt]

Requests ==
    {NoUpload} \cup [hasFile : {TRUE}, filename : Filenames, pdf : Pdfs]

\* A configuration file on disk: absent, unreadable, or its text.
Missing == <<"<missing>">>
Unreadable == <<"<unreadable>">>
OntologyTexts == {<<"O1">>, <<"O2">>}
PromptTexts == {<<"P1">>}

ConfigStates ==
    [ontology : {Missing} \cup OntologyTexts,
     prompt : {Unreadable} \cup PromptTexts]

\* The texts a candidate may carry.
TxtBad == <<"{", "\"k\"", ":">>
TxtNull == <<"null">>
TxtZero == <<"0">>
TxtObj == <<"{", "\"k\"", ":", " ", "\"\\u00e9\"", "}">>

CandidateTexts == {TxtBad, TxtNull, TxtZero, TxtObj}

\* What model.generate_content does: it raises, or returns a response with
\* no candidates (blocked or not), a candidate without parts, or a text.
NoResponse == [kind |-> "none", text |-> <<>>]

Responses ==
    [kind : {"raise", "blocked", "empty", "noparts"}, text : {<<>>}]
        \cup [kind : {"text"}, text : CandidateTexts]

\* The provider as one request meets it: whether constructing the model
\* handle succeeds (lines 99-107) and, if it does, what generate_content does.
ProviderBehaviours ==
    {[initOK |-> FALSE, g |-> NoResponse]}
        \cup [initOK : {TRUE}, g : Responses]

(***************************************************************************)
(* The messages of the error payloads and of the log.                      *)
(***************************************************************************)
NoError == ""
MsgNoFile == "No file part in the request"
MsgNoName == "No selected file"
MsgBadType == "Invalid file type. Please upload a PDF."
MsgConfig == "Server configuration error reading ontology or prompt."
MsgPdf == "Failed to extract text from the PDF file."
MsgAI == "Failed to extract information using the AI model."
\* Flask's answer to an exception that leaves the view function.
MsgUnhandled == "Internal Server Error"

LogEmptyText == "Warning: Extracted text from PDF is empty."
LogModelInit == "Error initializing Gemini model"
LogApiError == "Error during Gemini API call or processing"
LogBlocked == "Warning: Response might have been blocked or empty."
LogNoParts == "Warning: Response candidate has no parts."
LogInvalidJson == "Error: Gemini did not return valid JSON."
LogParsed == "Successfully parsed JSON response from Gemini."
LogSaved == "Output saved to"
LogSaveError == "Error saving output to"

(***************************************************************************)
(* The steps of the pipeline.                                              *)
(***************************************************************************)
\* The validator without lower(): the extension is compared as typed.
ValidationError_CaseSensitive(upload) ==
    IF ~upload.hasFile THEN MsgNoFile
    ELSE IF upload.filename = <<>> THEN MsgNoName
    ELSE IF ~endswith(upload.filename, DotPdf) THEN MsgBadType
    ELSE NoError

\* Lines 158-170: the error the validator answers with, NoError if none.
ValidationError(upload) ==
    IF ~upload.hasFile THEN MsgNoFile
    ELSE IF upload.filename = <<>> THEN MsgNoName
    ELSE IF ~endswith(lower(upload.filename), DotPdf) THEN MsgBadType
    ELSE NoError

\* read_file: the text, or None when open or read raises.
read_file(onDisk) ==
    IF onDisk = Missing \/ onDisk = Unreadable THEN NoneText ELSE onDisk

\* Line 177 with "and" for "or".
ConfigMissing_Both(ontology_content, prompt_template_content) ==
    ontology_content = NoneText /\ prompt_template_content = NoneText

\* Line 177.
ConfigMissing(ontology_content, prompt_template_content) ==
    ontology_content = NoneText \/ prompt_template_content = NoneText

RECURSIVE PagesText(_, _)
PagesText(pages, page_num) ==
    IF page_num > Len(pages) THEN <<>>
    ELSE pages[page_num] \o PagesText(pages, page_num + 1)

\* extract_text_from_pdf returning the text read so far, "", when PdfReader
\* raises.
extract_text_EmptyOnError(pdf) ==
    IF ~pdf.ok THEN <<>> ELSE PagesText(pdf.pages, 1)

\* extract_text_from_pdf: None when PdfReader raises, else the pages' texts
\* concatenated in page order.
extract_text_from_pdf(pdf) ==
    IF ~pdf.ok THEN NoneText ELSE PagesText(pdf.pages, 1)

\* The fragments of the f-string of lines 85-97; Fence stands for the three
\* backquotes that open ("xml", "text") or close a fenced block.
OntologyLabel == "ONTOLOGY CONTEXT:"
DocumentLabel == "DOCUMENT TO ANALYZE:"
JsonMarker == "EXTRACTED JSON OUTPUT:"
FenceXml == "<fence>xml"
FenceText == "<fence>text"
Fence == "<fence>"

\* The f-string with the document and the ontology in each other's block.
full_prompt_Swapped(document_text, ontology_text, prompt_template) ==
    prompt_template
        \o <<OntologyLabel, FenceXml>> \o document_text \o <<Fence>>
        \o <<DocumentLabel, FenceText>> \o ontology_text \o <<Fence>>
        \o <<JsonMarker>>

full_prompt(document_text, ontology_text, prompt_template) ==
    prompt_template
        \o <<OntologyLabel, FenceXml>> \o ontology_text \o <<Fence>>
        \o <<DocumentLabel, FenceText>> \o document_text \o <<Fence>>
        \o <<JsonMarker>>

\* Lines 116-122 returning an empty result, {}, when there is no candidate.
GeminiResult_EmptyObject(g) ==
    CASE g.kind = "raise" -> PyNone
      [] g.kind \in {"blocked", "empty"} -> JObj(<<>>)
      [] g.kind = "noparts" -> PyNone
      [] OTHER -> IF json_loads(g.text).ok THEN json_loads(g.text).v
                  ELSE PyNone

\* Lines 137-142 falling back to the raw text when it is not valid JSON.
GeminiResult_RawText(g) ==
    CASE g.kind = "raise" -> PyNone
      [] g.kind \in {"blocked", "empty"} -> PyNone
      [] g.kind = "noparts" -> PyNone
      [] OTHER -> IF json_loads(g.text).ok THEN json_loads(g.text).v
                  ELSE JStr("k")

\* Lines 116-152: what extract_concepts_with_gemini returns for the
\* provider's behaviour g.
GeminiResult(g) ==
    CASE g.kind = "raise" -> PyNone
      [] g.kind \in {"blocked", "empty"} -> PyNone
      [] g.kind = "noparts" -> PyNone
      [] OTHER -> IF json_loads(g.text).ok THEN json_loads(g.text).v
                  ELSE PyNone

GeminiLog(g) ==
    CASE g.kind = "raise" -> {LogApiError}
      [] g.kind \in {"blocked", "empty"} -> {LogBlocked}
      [] g.kind = "noparts" -> {LogNoParts}
      [] OTHER -> IF json_loads(g.text).ok THEN {LogParsed}
                  ELSE {LogInvalidJson}

\* extract_concepts_with_gemini: the prompt is built, the model handle is
\* constructed (provider.initOK: the constructor does not raise), and then
\* generate_content is called once.
extract_concepts_with_gemini(document_text, ontology_text, prompt_template, provider) ==
    LET prompt == full_prompt(document_text, ontology_text, prompt_template)
    IN  IF ~provider.initOK
        THEN [prompt |-> prompt, llm |-> NoResponse, calls |-> 0,
              data |-> PyNone, log |-> {LogModelInit}]
        ELSE [prompt |-> prompt, llm |-> provider.g, calls |-> 1,
              data |-> GeminiResult(provider.g),
              log |-> GeminiLog(provider.g)]

\* Line 198.
ExtractionSucceeded(extracted_data) == extracted_data # PyNone

(***************************************************************************)
(* A thread's request: the upload, what each step produced, how often each *)
(* external collaborator was used, and the response.                       *)
(***************************************************************************)
Blank ==
    [pc |-> "idle", stage |-> "none", upload |-> NoUpload,
     ontology |-> NoneText, template |-> NoneText, doc |-> NoneText,
     prompt |-> <<>>, llm |-> NoResponse, data |-> PyNone,
     cfgReads |-> 0, extracts |-> 0, llmCalls |-> 0, opens |-> 0,
     save |-> "none", buf |-> <<>>, off |-> 0, log |-> {},
     status |-> 0, error |-> NoError, body |-> PyNone]

\* return jsonify({"error": message}), status
ErrorResponse(rec, stage, status, message) ==
    [rec EXCEPT !.pc = "done", !.stage = stage, !.status = status,
                !.error = message]

\* return jsonify(extracted_data), 200
DataResponse(rec) ==
    [rec EXCEPT !.pc = "done", !.status = 200, !.body = rec.data]

\* handle_extraction, lines 156-190: validation, the two configuration
\* reads, text extraction.  The request is answered here, or goes on to
\* extract_concepts_with_gemini.
receive(upload, onDisk) ==
    LET ontology_content == read_file(onDisk.ontology)
        prompt_template_content == read_file(onDisk.prompt)
        pdf_text == extract_text_from_pdf(upload.pdf)
        received == [Blank EXCEPT !.upload = upload]
        configured == [received EXCEPT !.ontology = ontology_content,
                                       !.template = prompt_template_content,
                                       !.cfgReads = 2]
        extracted == [configured EXCEPT
                         !.doc = pdf_text, !.extracts = 1,
                         !.log = IF pdf_text = <<>> THEN {LogEmptyText} ELSE {}]
    IN  IF ValidationError(upload) # NoError
        THEN ErrorResponse(received, "validate", 400, ValidationError(upload))
        ELSE IF ConfigMissing(ontology_content, prompt_template_content)
        THEN ErrorResponse(configured, "config", 500, MsgConfig)
        ELSE IF pdf_text = NoneText
        THEN ErrorResponse(extracted, "extract", 400, MsgPdf)
        ELSE [extracted EXCEPT !.pc = "calling"]

\* handle_extraction, lines 192-204: the call of
\* extract_concepts_with_gemini and the branch on its result.
answer(rec, provider) ==
    LET ai == extract_concepts_with_gemini(rec.doc, rec.ontology, rec.template,
                                           provider)
        answered == [rec EXCEPT !.prompt = ai.prompt, !.llm = ai.llm,
                                !.llmCalls = ai.calls, !.data = ai.data,
                                !.log = @ \cup ai.log]
    IN  IF ExtractionSucceeded(ai.data)
        THEN [answered EXCEPT !.pc = "saving", !.stage = "save"]
        ELSE ErrorResponse(answered, "llm", 500, MsgAI)

\* A write of chunk at offset off of a file holding content; a gap left by
\* another writer's truncation reads as NUL bytes.
WriteAt(content, off, chunk) ==
    [i \in 1..(IF Len(content) > off + Len(chunk) THEN Len(content)
               ELSE off + Len(chunk)) |->
        IF i > off /\ i <= off + Len(chunk) THEN chunk[i - off]
        ELSE IF i <= Len(content) THEN content[i]
        ELSE "NUL"]

\* files with path created or replaced by content.
WithFile(fs, path, content) ==
    [q \in DOMAIN fs \cup {path} |-> IF q = path THEN content ELSE fs[q]]

(***************************************************************************)
(* The actions.                                                            *)
(***************************************************************************)
TypeOK ==
    /\ pool \subseteq Threads
    /\ disk \in ConfigStates
    /\ served \in 0..MaxRequests
    /\ \A t \in Threads : req[t].pc \in {"idle", "calling", "saving", "writing", "done"}

InitState ==
    /\ disk \in ConfigStates
    /\ files = << >>
    /\ req = [t \in Threads |-> Blank]
    /\ lastClose = << >>
    /\ served = 0

\* One request at a time.
Init == pool = {"t1"} /\ InitState

\* The threaded development server: requests are served concurrently.
ConcInit == pool = Threads /\ InitState

\* An operator edits, removes or restores a configuration file.
EditConfig ==
    /\ \E d \in ConfigStates : d # disk /\ disk' = d
    /\ UNCHANGED <<pool, files, req, lastClose, served>>

\* A request arrives at thread t: it is validated, the configuration is
\* read and the text extracted.
Receive(t) ==
    /\ t \in pool
    /\ req[t].pc \in {"idle", "done"}
    /\ served < MaxRequests
    /\ \E upload \in Requests :
          req' = [req EXCEPT ![t] = receive(upload, disk)]
    /\ served' = served + 1
    /\ UNCHANGED <<pool, disk, files, lastClose>>

\* The blocking call of the provider, and the branch on its result.
CallModel(t) ==
    /\ t \in pool
    /\ req[t].pc = "calling"
    /\ \E provider \in ProviderBehaviours :
          req' = [req EXCEPT ![t] = answer(req[t], provider)]
    /\ UNCHANGED <<pool, disk, files, lastClose, served>>

\* save_output, lines 46-48: os.makedirs and open, either of which may
\* raise.  The handler of line 52 formats filepath, which is unbound when
\* os.makedirs raised: that exception leaves save_output and the view.
SaveOpen(t) ==
    /\ t \in pool
    /\ req[t].pc = "saving"
    /\ LET r == req[t]
       IN  \E outcome \in {"makedirs", "open", "ok"} :
             CASE outcome = "makedirs" ->
                    /\ req' = [req EXCEPT ![t] =
                           ErrorResponse([r EXCEPT !.save = "makedirs"],
                                         "save", 500, MsgUnhandled)]
                    /\ UNCHANGED files
               [] outcome = "open" ->
                    /\ req' = [req EXCEPT ![t] =
                           DataResponse([r EXCEPT !.save = "open",
                                                  !.log = @ \cup {LogSaveError}])]
                    /\ UNCHANGED files
               [] OTHER ->
                    /\ req' = [req EXCEPT ![t] =
                           [r EXCEPT !.pc = "writing", !.opens = 1,
                                     !.buf = json_dump(r.data), !.off = 0]]
                    /\ files' = WithFile(files, OutputPath(r.upload.filename),
                                         <<>>)
    /\ UNCHANGED <<pool, disk, lastClose, served>>

\* save_output, lines 49-52: json.dump writes the serialization through the
\* file's buffer, which is flushed when the file is closed at the thread's
\* own offset (the results of this universe are far shorter than the
\* buffer).  Either everything is written ("ok"), or json.dump or the flush
\* raises with only the first k tokens written ("dump"), which line 52 logs.
SaveWrite(t) ==
    /\ t \in pool
    /\ req[t].pc = "writing"
    /\ LET r == req[t]
           path == OutputPath(r.upload.filename)
           Flushed(k) == WriteAt(files[path], 0, SubSeq(r.buf, 1, k))
       IN  \E outcome \in {"dump", "ok"} :
             CASE outcome = "dump" ->
                    \E k \in 0..(Len(r.buf) - 1) :
                      /\ files' = WithFile(files, path, Flushed(k))
                      /\ req' = [req EXCEPT ![t] =
                             DataResponse([r EXCEPT !.save = "dump",
                                                    !.off = k,
                                                    !.log = @ \cup {LogSaveError}])]
               [] OTHER ->
                    /\ files' = WithFile(files, path, Flushed(Len(r.buf)))
                    /\ req' = [req EXCEPT ![t] =
                           DataResponse([r EXCEPT !.save = "ok",
                                                  !.off = Len(r.buf),
                                                  !.log = @ \cup {LogSaved}])]
    /\ lastClose' = WithFile(lastClose, OutputPath(req[t].upload.filename), t)
    /\ UNCHANGED <<pool, disk, served>>

Next ==
    \/ EditConfig
    \/ \E t \in Threads : Receive(t)
    \/ \E t \in Threads : CallModel(t)
    \/ \E t \in Threads : SaveOpen(t)
    \/ \E t \in Threads : SaveWrite(t)

Spec == Init /\ [][Next]_vars

ConcSpec == ConcInit /\ [][Next]_vars

(***************************************************************************)
(* The properties.                                                         *)
(***************************************************************************)
Started(t) == req[t].pc # "idle"
Done(t) == req[t].pc = "done"

\* A file name ends in .pdf, whatever the case of the extension's letters.
NamedPdf(filename) ==
    /\ Len(filename) >= 4
    /\ filename[Len(filename) - 3] = "."
    /\ filename[Len(filename) - 2] \in {"p", "P"}
    /\ filename[Len(filename) - 1] \in {"d", "D"}
    /\ filename[Len(filename)] \in {"f", "F"}

\* The uploads the Request Validator is to reject.
Rejectable(upload) ==
    \/ ~upload.hasFile
    \/ upload.filename = <<>>
    \/ ~NamedPdf(upload.filename)

NothingUsed(r) ==
    r.cfgReads = 0 /\ r.extracts = 0 /\ r.llmCalls = 0 /\ r.opens = 0

\* C1: a request is rejected by the validator exactly when it has no file
\* part, an empty file name, or a name not ending in .pdf compared without
\* regard to case; a rejected request is answered 400 with an error payload
\* and reads no configuration, extracts no text, calls no LLM and writes no
\* file.
C1_ValidatorRejects ==
    \A t \in Threads :
        Started(t) =>
            /\ Rejectable(req[t].upload) <=> req[t].stage = "validate"
            /\ req[t].stage = "validate" =>
                   /\ Done(t)
                   /\ req[t].status = 400
                   /\ req[t].error \in {MsgNoFile, MsgNoName, MsgBadType}
                   /\ NothingUsed(req[t])

C1_Witness ==
    \E t \in Threads :
        /\ Done(t)
        /\ req[t].upload.hasFile
        /\ req[t].upload.filename = FnTxt
        /\ req[t].status = 400

CorruptPdfUpload(r) ==
    /\ ~Rejectable(r.upload)
    /\ ~r.upload.pdf.ok

\* C2, as claimed: every request named *.pdf whose bytes are a corrupted
\* PDF fails in text extraction, is answered 400 and calls no LLM.
C2_CorruptPdfAlways400 ==
    \A t \in Threads :
        Started(t) /\ CorruptPdfUpload(req[t]) =>
            /\ Done(t)
            /\ req[t].extracts = 1 /\ req[t].doc = NoneText
            /\ req[t].status = 400
            /\ req[t].llmCalls = 0

\* C2, amended: a request named *.pdf whose bytes are a corrupted PDF calls
\* no LLM; if both configuration files were read, text extraction fails and
\* the response is 400; if one was not, the response is 500 and no
\* extraction runs.
C2_CorruptPdf400WhenConfigured ==
    \A t \in Threads :
        Started(t) /\ CorruptPdfUpload(req[t]) =>
            /\ Done(t)
            /\ req[t].llmCalls = 0 /\ req[t].opens = 0
            /\ IF req[t].ontology # NoneText /\ req[t].template # NoneText
               THEN /\ req[t].extracts = 1 /\ req[t].doc = NoneText
                    /\ req[t].status = 400 /\ req[t].error = MsgPdf
               ELSE /\ req[t].extracts = 0
                    /\ req[t].status = 500 /\ req[t].error = MsgConfig

C2_Witness ==
    \E t \in Threads :
        /\ Done(t)
        /\ CorruptPdfUpload(req[t])
        /\ req[t].stage = "extract"
        /\ req[t].status = 400

\* What a read of a configuration file yields now.
ReadNow(onDisk) == IF onDisk \in OntologyTexts \cup PromptTexts THEN onDisk
                   ELSE NoneText

\* The step is thread t's receiving a request.
Receives(t) ==
    /\ served' = served + 1
    /\ req'[t] # req[t] \/ pool = {t}

\* C3: the step that receives a request passing validation reads both
\* configuration files as they are on disk at that moment; if either is
\* missing or unreadable the request is answered 500 there and then, with
\* no text extraction, no LLM call and no output write.
C3_ConfigReadPerRequest ==
    [][\A t \in Threads :
          (Receives(t) /\ ~Rejectable(req'[t].upload)) =>
             /\ req'[t].cfgReads = 2
             /\ req'[t].ontology = ReadNow(disk.ontology)
             /\ req'[t].template = ReadNow(disk.prompt)
             /\ (disk.ontology = Missing \/ disk.prompt = Unreadable) =>
                    /\ req'[t].pc = "done"
                    /\ req'[t].status = 500
                    /\ req'[t].error = MsgConfig
                    /\ req'[t].extracts = 0
                    /\ req'[t].llmCalls = 0
                    /\ req'[t].opens = 0
                    /\ files' = files]_vars

\* A request fails on the configuration although an earlier one, whose
\* output file exists, had read it.
C3_Witness ==
    \E t \in Threads :
        /\ Done(t)
        /\ req[t].stage = "config"
        /\ req[t].status = 500
        /\ DOMAIN files # {}

\* C4: a request whose call of the provider raised, or returned no
\* candidates or a candidate without parts, is answered 500, has called the
\* provider once and has opened no output file.
C4_ProviderFailure500 ==
    \A t \in Threads :
        req[t].llm.kind \in {"raise", "blocked", "empty", "noparts"} =>
            /\ Done(t)
            /\ req[t].status = 500
            /\ req[t].llmCalls = 1
            /\ req[t].opens = 0 /\ req[t].save = "none"

C4_Witness ==
    \E t \in Threads :
        /\ Done(t)
        /\ req[t].llm.kind = "blocked"
        /\ req[t].status = 500

InvalidJsonAnswer(r) == r.llm.kind = "text" /\ ~json_loads(r.llm.text).ok

\* The messages of the program that speak of a parse failure.
IndicatesParseFailure(message) == message = LogInvalidJson

\* C5, as claimed: a request whose LLM text is not valid JSON is answered
\* 500 with an error message that indicates a parse failure, and no output
\* file is written.
C5_InvalidJsonMessage ==
    \A t \in Threads :
        InvalidJsonAnswer(req[t]) =>
            /\ Done(t)
            /\ req[t].status = 500
            /\ IndicatesParseFailure(req[t].error)
            /\ req[t].opens = 0

\* C5, amended: a request whose LLM text is not valid JSON is answered 500
\* with the error message of every failed extraction; the parse failure is
\* named in the log only; no output file is written.
C5_InvalidJsonGeneric500 ==
    \A t \in Threads :
        InvalidJsonAnswer(req[t]) =>
            /\ Done(t)
            /\ req[t].status = 500
            /\ req[t].error = MsgAI
            /\ LogInvalidJson \in req[t].log
            /\ req[t].opens = 0 /\ req[t].save = "none"

C5_Witness ==
    \E t \in Threads :
        /\ Done(t)
        /\ req[t].llm.text = TxtBad
        /\ req[t].status = 500

\* C6, as claimed: a request whose LLM text parses as a JSON value v is
\* taken as a success and answered 200 with v.  (Requests whose output
\* directory could not be created are C7's.)
C6_AnyJsonValuePassedThrough ==
    \A t \in Threads :
        (/\ req[t].llm.kind = "text"
         /\ json_loads(req[t].llm.text).ok
         /\ req[t].save # "makedirs") =>
            /\ req[t].stage = "save"
            /\ Done(t) =>
                  /\ req[t].status = 200
                  /\ req[t].body = json_loads(req[t].llm.text).v

\* C7, as claimed: whichever step of save_output fails, the failure is
\* logged and the response is 200 with the extracted JSON.
C7_WriterFailureNotPropagated ==
    \A t \in Threads :
        (Done(t) /\ req[t].save \in {"makedirs", "open", "dump"}) =>
            /\ req[t].status = 200
            /\ req[t].body = req[t].data
            /\ LogSaveError \in req[t].log

\* <stem> of a file name <stem>.pdf.
Stem(filename) == SubSeq(filename, 1, Len(filename) - 4)

\* <output-dir>/<stem>_extraction.json
StemPath(filename) ==
    OUTPUT_DIR \o <<"/">> \o Stem(filename) \o ExtractionSuffix

\* C8, as claimed: after a request with file name <stem>.pdf has ended with
\* 200 and its write did not fail, <output-dir>/<stem>_extraction.json
\* parses to the JSON value of the response.
C8_RoundTripAtStemPath ==
    \A t \in Threads :
        (Done(t) /\ req[t].status = 200 /\ req[t].save = "ok") =>
            /\ StemPath(req[t].upload.filename) \in DOMAIN files
            /\ json_loads(files[StemPath(req[t].upload.filename)]).ok
            /\ json_loads(files[StemPath(req[t].upload.filename)]).v
                  = req[t].body

\* At the path save_output computes, the file of a request that ended with
\* 200 and an unfailed write parses to the JSON value of the response, when
\* requests are served one at a time.
SavedFileParsesToResponse ==
    \A t \in Threads :
        (Done(t) /\ req[t].status = 200 /\ req[t].save = "ok") =>
            /\ OutputPath(req[t].upload.filename) \in DOMAIN files
            /\ json_loads(files[OutputPath(req[t].upload.filename)])
                  = [ok |-> TRUE, v |-> req[t].body]

\* The requests that passed validation, configuration loading and text
\* extraction and are past the LLM step.
PastModelStep(t) == req[t].stage \in {"llm", "save"}

\* The prompt: the template, the ontology in its xml block, the document
\* text in its text block, the marker.
PromptInOrder(r) ==
    LET a == Len(r.template) + 1
        b == a + 2 + Len(r.ontology)
        c == b + 1
        d == c + 2 + Len(r.doc)
    IN  /\ Len(r.prompt) = d + 1
        /\ SubSeq(r.prompt, 1, a - 1) = r.template
        /\ SubSeq(r.prompt, a, a + 1) = <<OntologyLabel, FenceXml>>
        /\ SubSeq(r.prompt, a + 2, b - 1) = r.ontology
        /\ r.prompt[b] = Fence
        /\ SubSeq(r.prompt, c, c + 1) = <<DocumentLabel, FenceText>>
        /\ SubSeq(r.prompt, c + 2, d - 1) = r.doc
        /\ SubSeq(r.prompt, d, d + 1) = <<Fence, JsonMarker>>

\* C9, as claimed: every request that passed validation, configuration
\* loading and text extraction has called the LLM exactly once, with the
\* prompt in order.
C9_ExactlyOneCall ==
    \A t \in Threads :
        PastModelStep(t) =>
            /\ req[t].llmCalls = 1
            /\ PromptInOrder(req[t])

\* C9, amended: such a request has called the LLM exactly once, with the
\* prompt in order, unless constructing the model handle failed; then it
\* has called it not at all and is answered 500.
C9_OneCallUnlessInitFails ==
    \A t \in Threads :
        PastModelStep(t) =>
            /\ PromptInOrder(req[t])
            /\ IF LogModelInit \in req[t].log
               THEN /\ req[t].llmCalls = 0
                    /\ Done(t) /\ req[t].status = 500
               ELSE /\ req[t].llmCalls = 1
                    /\ req[t].llm # NoResponse

\* A request whose document text is empty has called the LLM.
C9_Witness ==
    \E t \in Threads :
        /\ PastModelStep(t)
        /\ req[t].doc = <<>>
        /\ req[t].llmCalls = 1

\* C10, as claimed: when two requests have saved to the same output file,
\* both without a failure, the file holds the complete serialization of the
\* result of the one whose write finished last, and both are answered 200
\* with their own results.
C10_LastWriterWins ==
    \A t, u \in Threads :
        (/\ t # u
         /\ Done(t) /\ req[t].save = "ok"
         /\ Done(u) /\ req[u].save = "ok"
         /\ OutputPath(req[t].upload.filename)
               = OutputPath(req[u].upload.filename)
         /\ lastClose[OutputPath(req[t].upload.filename)] = t) =>
            /\ files[OutputPath(req[t].upload.filename)]
                  = json_dump(req[t].data)
            /\ req[t].status = 200 /\ req[t].body = req[t].data
            /\ req[u].status = 200 /\ req[u].body = req[u].data

====
